---- MODULE Spec2Model ----
(***************************************************************************)
(* Multimap table layer of redb (src/src/multimap_table.rs).               *)
(*                                                                         *)
(* A multimap pair (key, value) is stored as ONE key of a single-value     *)
(* B-tree; the stored value is empty.  The key bytes are                   *)
(*   tag (1 byte) ++ key_len (u32, little endian) ++ key ++ value          *)
(* and range queries use sentinel keys (tags 2, 3, 4) that the composite   *)
(* comparator MultimapKVPair::compare orders around the stored pairs.      *)
(*                                                                         *)
(* The key type K and the value type V are both taken to be [u8]: the      *)
(* serialized form is the byte slice itself and K::compare / V::compare    *)
(* are the lexicographic order on bytes.                                   *)
(*                                                                         *)
(* The B-tree, the page store and the transaction manager live in          *)
(* crate::tree_store and crate::WriteTransaction, which are not part of    *)
(* multimap_table.rs; they are modelled from the interface description     *)
(* in spec.md (sections 5 and 6).  A whole version of the tree is kept in  *)
(* one page of the page store, so a root page number names an immutable    *)
(* version as long as the page is neither overwritten nor freed.           *)
(***************************************************************************)
EXTENDS Integers, Sequences, FiniteSets, TLC

\* ---------------------------------------------------------------------
\* Bounds of the model
\* ---------------------------------------------------------------------
MaxByte == 1        \* bytes of keys and values range over 1..MaxByte
MaxKeyLen == 1      \* keys are byte strings of at most this length
MaxValLen == 1      \* values are byte strings of at most this length
MaxPairs == 3       \* insert is not attempted on a table of this many pairs
MaxPages == 3       \* size of the page store (storage exhaustion beyond it)
MaxTxns == 1        \* write transactions begun under Spec
MaxSnapshotTxns == 2 \* write transactions begun under TxnSpec
MaxTables == 2      \* table names a write transaction knows under DropSpec
MaxOps == 8         \* opens and mutating calls made in one scope under DropSpec

ByteDomain == 1..MaxByte

BoundedBytes(n) == UNION { [1..m -> ByteDomain] : m \in 0..n }

Keys == BoundedBytes(MaxKeyLen)
Values == BoundedBytes(MaxValLen)
\* values written under TxnSpec
SnapshotValues == { << >> }

\* ---------------------------------------------------------------------
\* Orderings
\* ---------------------------------------------------------------------
OrdInt(a, b) == IF a < b THEN "Less" ELSE IF a > b THEN "Greater" ELSE "Equal"

\* Ordering::reverse
reverse(o) ==
    CASE o = "Less" -> "Greater"
      [] o = "Greater" -> "Less"
      [] OTHER -> o

\* <[u8] as RedbKey>::compare: lexicographic comparison of byte slices
BytesCompare(a, b) ==
    LET n == IF Len(a) < Len(b) THEN Len(a) ELSE Len(b)
        diff == { i \in 1..n : a[i] # b[i] }
    IN  IF diff = {}
        THEN OrdInt(Len(a), Len(b))
        ELSE LET i == CHOOSE j \in diff : \A l \in diff : j <= l
             IN  OrdInt(a[i], b[i])

KCompare(a, b) == BytesCompare(a, b)
VCompare(a, b) == BytesCompare(a, b)

\* ---------------------------------------------------------------------
\* Encoded-pair format
\* ---------------------------------------------------------------------
\* MultimapKeyCompareOp::serialize
serialize(op) ==
    CASE op = "KeyAndValue" -> 1
      [] op = "KeyMinusEpsilon" -> 2
      [] op = "KeyPlusEpsilon" -> 3
      [] op = "KeyOnly" -> 4

\* the length written most significant byte first
to_le_bytes_BigEndian(n) ==
    << (n \div 16777216) % 256, (n \div 65536) % 256, (n \div 256) % 256, n % 256 >>

\* u32::to_le_bytes of (n as u32); lengths stay far below 2^32, where the
\* cast keeps the value
to_le_bytes(n) ==
    << n % 256, (n \div 256) % 256, (n \div 65536) % 256, (n \div 16777216) % 256 >>

\* u32::from_le_bytes
from_le_bytes(b) == b[1] + 256 * b[2] + 65536 * b[3] + 16777216 * b[4]

\* new_pair writing the tag of the KeyOnly sentinel
new_pair_KeyOnlyTag(key, value) ==
    << serialize("KeyOnly") >> \o to_le_bytes(Len(key)) \o key \o value

\* MultimapKVPair::new_pair
new_pair(key, value) ==
    << serialize("KeyAndValue") >> \o to_le_bytes(Len(key)) \o key \o value

\* make_serialized_key_with_op
make_serialized_key_with_op(key, op) ==
    << serialize(op) >> \o to_le_bytes(Len(key)) \o key

\* MultimapKVPairAccessor::compare_op
compare_op(data) ==
    CASE data[1] = 1 -> "KeyAndValue"
      [] data[1] = 2 -> "KeyMinusEpsilon"
      [] data[1] = 3 -> "KeyPlusEpsilon"
      [] data[1] = 4 -> "KeyOnly"
      [] OTHER -> "unreachable"

\* MultimapKVPairAccessor::key_len
key_len(data) == from_le_bytes(SubSeq(data, 2, 5))

\* MultimapKVPairAccessor::key_bytes
key_bytes(data) == SubSeq(data, 6, 5 + key_len(data))

\* MultimapKVPairAccessor::value_bytes: &self.data[(5 + self.key_len())..],
\* a slice that exists only when its start lies within the buffer; on a
\* shorter buffer the code panics and value_bytes has no value
value_bytes(data) ==
    CASE 5 + key_len(data) <= Len(data) -> SubSeq(data, 6 + key_len(data), Len(data))

\* What one accessor call does on a raw buffer: it returns a value, or it
\* panics (an index or a slice out of range, unreachable!()).  The accessors
\* return plain values, no Result.
Returns(v) == [kind |-> "Ok", value |-> v]
Panics == [kind |-> "Panic", value |-> << >>]

\* compare_op: self.data[0], then the match with its unreachable!() arm
compare_op_call(data) ==
    IF Len(data) < 1
    THEN Panics
    ELSE IF data[1] \in 1..4 THEN Returns(compare_op(data)) ELSE Panics

\* key_len: self.data[1..5]
key_len_call(data) ==
    IF Len(data) < 5 THEN Panics ELSE Returns(key_len(data))

\* key_bytes: self.data[5..(5 + self.key_len())]
key_bytes_call(data) ==
    IF Len(data) < 5
    THEN Panics
    ELSE IF Len(data) < 5 + key_len(data) THEN Panics ELSE Returns(key_bytes(data))

\* value_bytes: self.data[(5 + self.key_len())..]
value_bytes_call(data) ==
    IF Len(data) < 5
    THEN Panics
    ELSE IF Len(data) < 5 + key_len(data) THEN Panics ELSE Returns(value_bytes(data))

\* ---------------------------------------------------------------------
\* Composite comparator
\* ---------------------------------------------------------------------
\* the comparator with the KeyOnly arm matching every pair
compare_query_KeyOnlyAny(data1, data2) ==
    LET kc == KCompare(key_bytes(data1), key_bytes(data2))
        op == compare_op(data2)
    IN  CASE op = "KeyAndValue" ->
               (CASE kc = "Less" -> "Less"
                  [] kc = "Equal" -> VCompare(value_bytes(data1), value_bytes(data2))
                  [] kc = "Greater" -> "Greater")
          [] op = "KeyMinusEpsilon" ->
               (CASE kc = "Less" -> "Less"
                  [] kc = "Equal" -> "Greater"
                  [] kc = "Greater" -> "Greater")
          [] op = "KeyPlusEpsilon" ->
               (CASE kc = "Less" -> "Less"
                  [] kc = "Equal" -> "Less"
                  [] kc = "Greater" -> "Greater")
          [] op = "KeyOnly" -> "Equal"

\* the comparator with the operands of V::compare exchanged in the KeyAndValue arm
compare_query_ValueSwapped(data1, data2) ==
    LET kc == KCompare(key_bytes(data1), key_bytes(data2))
        op == compare_op(data2)
    IN  CASE op = "KeyAndValue" ->
               (CASE kc = "Less" -> "Less"
                  [] kc = "Equal" -> VCompare(value_bytes(data2), value_bytes(data1))
                  [] kc = "Greater" -> "Greater")
          [] op = "KeyMinusEpsilon" ->
               (CASE kc = "Less" -> "Less"
                  [] kc = "Equal" -> "Greater"
                  [] kc = "Greater" -> "Greater")
          [] op = "KeyPlusEpsilon" ->
               (CASE kc = "Less" -> "Less"
                  [] kc = "Equal" -> "Less"
                  [] kc = "Greater" -> "Greater")
          [] op = "KeyOnly" -> kc

\* the comparator with the Equal results of the two epsilon arms exchanged
compare_query_EpsilonSwapped(data1, data2) ==
    LET kc == KCompare(key_bytes(data1), key_bytes(data2))
        op == compare_op(data2)
    IN  CASE op = "KeyAndValue" ->
               (CASE kc = "Less" -> "Less"
                  [] kc = "Equal" -> VCompare(value_bytes(data1), value_bytes(data2))
                  [] kc = "Greater" -> "Greater")
          [] op = "KeyMinusEpsilon" ->
               (CASE kc = "Less" -> "Less"
                  [] kc = "Equal" -> "Less"
                  [] kc = "Greater" -> "Greater")
          [] op = "KeyPlusEpsilon" ->
               (CASE kc = "Less" -> "Less"
                  [] kc = "Equal" -> "Greater"
                  [] kc = "Greater" -> "Greater")
          [] op = "KeyOnly" -> kc

\* the comparator with the KeyMinusEpsilon arm comparing only the key
compare_query_MinusAsKeyOnly(data1, data2) ==
    LET kc == KCompare(key_bytes(data1), key_bytes(data2))
        op == compare_op(data2)
    IN  CASE op = "KeyAndValue" ->
               (CASE kc = "Less" -> "Less"
                  [] kc = "Equal" -> VCompare(value_bytes(data1), value_bytes(data2))
                  [] kc = "Greater" -> "Greater")
          [] op = "KeyMinusEpsilon" ->
               (CASE kc = "Less" -> "Less"
                  [] kc = "Equal" -> "Equal"
                  [] kc = "Greater" -> "Greater")
          [] op = "KeyPlusEpsilon" ->
               (CASE kc = "Less" -> "Less"
                  [] kc = "Equal" -> "Less"
                  [] kc = "Greater" -> "Greater")
          [] op = "KeyOnly" -> kc

\* the comparator ordering two pairs by value first, then by key
compare_query_ValueFirst(data1, data2) ==
    LET kc == KCompare(key_bytes(data1), key_bytes(data2))
        vc == VCompare(value_bytes(data1), value_bytes(data2))
        op == compare_op(data2)
    IN  CASE op = "KeyAndValue" -> (IF vc = "Equal" THEN kc ELSE vc)
          [] op = "KeyMinusEpsilon" ->
               (CASE kc = "Less" -> "Less"
                  [] kc = "Equal" -> "Greater"
                  [] kc = "Greater" -> "Greater")
          [] op = "KeyPlusEpsilon" ->
               (CASE kc = "Less" -> "Less"
                  [] kc = "Equal" -> "Less"
                  [] kc = "Greater" -> "Greater")
          [] op = "KeyOnly" -> kc

\* The match on kv2.compare_op() once data1 is known to be a pair
compare_query(data1, data2) ==
    LET kc == KCompare(key_bytes(data1), key_bytes(data2))
        op == compare_op(data2)
    IN  CASE op = "KeyAndValue" ->
               (CASE kc = "Less" -> "Less"
                  [] kc = "Equal" -> VCompare(value_bytes(data1), value_bytes(data2))
                  [] kc = "Greater" -> "Greater")
          [] op = "KeyMinusEpsilon" ->
               (CASE kc = "Less" -> "Less"
                  [] kc = "Equal" -> "Greater"
                  [] kc = "Greater" -> "Greater")
          [] op = "KeyPlusEpsilon" ->
               (CASE kc = "Less" -> "Less"
                  [] kc = "Equal" -> "Less"
                  [] kc = "Greater" -> "Greater")
          [] op = "KeyOnly" -> kc

\* the swap returning what the recursive call returned, not reversed
compare_swapped_NoReverse(r) == r

\* Self::compare(data2, data1).reverse(): r is what the recursive call returned
compare_swapped(r) == [ordering |-> reverse(r.ordering), swaps |-> r.swaps]

RECURSIVE compare_call(_, _, _)
\* the comparator swapping its operands before it checks the assertion
compare_call_SwapFirst(data1, data2, swaps) ==
    IF compare_op(data1) # "KeyAndValue" /\ swaps = 0
    THEN compare_swapped(compare_call(data2, data1, swaps + 1))
    ELSE IF ~(compare_op(data1) = "KeyAndValue" \/ compare_op(data2) = "KeyAndValue")
         THEN [ordering |-> "Panic", swaps |-> swaps]
         ELSE [ordering |-> compare_query(data1, data2), swaps |-> swaps]

\* One call of <MultimapKVPair as RedbKey>::compare, entered after `swaps`
\* operand swaps: the ordering it returns ("Panic" is the failed assert!)
\* and the swaps made when it returned
compare_call(data1, data2, swaps) ==
    IF ~(compare_op(data1) = "KeyAndValue" \/ compare_op(data2) = "KeyAndValue")
    THEN [ordering |-> "Panic", swaps |-> swaps]
    ELSE IF compare_op(data1) # "KeyAndValue"
         THEN compare_swapped(compare_call(data2, data1, swaps + 1))
         ELSE [ordering |-> compare_query(data1, data2), swaps |-> swaps]

\* <MultimapKVPair as RedbKey>::compare
compare(data1, data2) == compare_call(data1, data2, 0).ordering

\* ---------------------------------------------------------------------
\* B-tree primitive (crate::tree_store), from spec.md section 6:
\* an ordered map over byte-string keys under the caller's comparator.
\* One version of the tree is the sequence of its keys in comparator order.
\* ---------------------------------------------------------------------
\* Binary search for query q among t[lo..hi]: BtreeSearch probes the middle
\* entry and BtreeSearchStep continues on the side the comparison c names
RECURSIVE BtreeSearch(_, _, _, _)
BtreeSearchStep(t, q, lo, mid, hi, c) ==
    CASE c = "Equal" -> [found |-> TRUE, pos |-> mid]
      [] c = "Less" -> BtreeSearch(t, q, lo, mid - 1)
      [] c = "Greater" -> BtreeSearch(t, q, mid + 1, hi)
      [] OTHER -> [found |-> FALSE, pos |-> lo]

BtreeSearch(t, q, lo, hi) ==
    IF lo > hi
    THEN [found |-> FALSE, pos |-> lo]
    ELSE BtreeSearchStep(t, q, lo, (lo + hi) \div 2, hi,
                         compare(q, t[(lo + hi) \div 2]))

\* the version with key written at the place s the search found
TreeInsertAt(t, key, s) ==
    IF s.found
    THEN [data |-> [t EXCEPT ![s.pos] = key], found |-> TRUE]
    ELSE [data |-> SubSeq(t, 1, s.pos - 1) \o << key >> \o SubSeq(t, s.pos, Len(t)),
          found |-> FALSE]

\* insert(key, b"") on one version: the new version and whether a prior value existed
TreeInsert(t, key) == TreeInsertAt(t, key, BtreeSearch(t, key, 1, Len(t)))

\* the version without the entry at the place s the search found
TreeRemoveAt(t, s) ==
    IF s.found
    THEN [data |-> SubSeq(t, 1, s.pos - 1) \o SubSeq(t, s.pos + 1, Len(t)),
          found |-> TRUE]
    ELSE [data |-> t, found |-> FALSE]

\* remove(key) on one version: removes one entry that compares Equal to key
TreeRemove(t, key) == TreeRemoveAt(t, BtreeSearch(t, key, 1, Len(t)))

Unbounded == [kind |-> "Unbounded", key |-> << >>]
Included(k) == [kind |-> "Included", key |-> k]
Excluded(k) == [kind |-> "Excluded", key |-> k]

\* RangeBounds::contains for a B-tree key e between two Included / Unbounded bounds
InBounds(e, start, end) ==
    /\ start.kind = "Unbounded" \/ compare(start.key, e) \in {"Less", "Equal"}
    /\ end.kind = "Unbounded" \/ compare(e, end.key) \in {"Less", "Equal"}

\* range(start, end): the cursor's entries, in tree order
TreeRange(t, start, end) ==
    LET Test(e) == InBounds(e, start, end)
    IN  SelectSeq(t, Test)

\* BtreeRangeIter::reverse: the same entries walked backward
BtreeRangeIter_reverse(inner) ==
    [i \in 1..Len(inner) |-> inner[Len(inner) + 1 - i]]

\* ---------------------------------------------------------------------
\* Page store (TransactionalMemory) and the mutable tree view (BtreeMut)
\* ---------------------------------------------------------------------
NoPage == 0         \* Option<(PageNumber, Checksum)>::None, the empty tree
PageNumbers == 1..MaxPages
FreeSlot == [used |-> FALSE, data |-> << >>]

\* Btree::new(root, mem) followed by a read of the version under root
PageData(m, root) == IF root = NoPage THEN << >> ELSE m[root].data

FreePages(m) == { p \in PageNumbers : ~m[p].used }
LowestFree(m) == CHOOSE p \in FreePages(m) : \A q \in FreePages(m) : p <= q

\* The old root of a tree that was rewritten: an uncommitted page is freed
\* at once unless it must be retained; any other page goes to freed_pages.
ReleaseRoot(s, retain) ==
    IF s.root = NoPage
    THEN [mem |-> s.mem, freed |-> s.freed, unc |-> s.unc]
    ELSE IF s.root \in s.unc /\ ~retain
         THEN [mem |-> [s.mem EXCEPT ![s.root] = FreeSlot],
               freed |-> s.freed, unc |-> s.unc \ {s.root}]
         ELSE [mem |-> s.mem, freed |-> s.freed \cup {s.root}, unc |-> s.unc]

\* Write the version r.data as the new version of the tree held in s.
\* An uncommitted root is rewritten in place unless `retain`; otherwise the
\* version is copied to a fresh page (copy on write), which can run out of space.
WriteVersion(s, r, retain) ==
    IF r.data = << >>
    THEN LET rel == ReleaseRoot(s, retain)
         IN  [mem |-> rel.mem, root |-> NoPage, freed |-> rel.freed, unc |-> rel.unc,
              found |-> r.found, err |-> FALSE]
    ELSE IF s.root # NoPage /\ s.root \in s.unc /\ ~retain
         THEN [mem |-> [s.mem EXCEPT ![s.root] = [used |-> TRUE, data |-> r.data]],
               root |-> s.root, freed |-> s.freed, unc |-> s.unc,
               found |-> r.found, err |-> FALSE]
         ELSE IF FreePages(s.mem) = {}
              THEN [mem |-> s.mem, root |-> s.root, freed |-> s.freed, unc |-> s.unc,
                    found |-> FALSE, err |-> TRUE]
              ELSE LET p == LowestFree(s.mem)
                       rel == ReleaseRoot(s, retain)
                   IN  [mem |-> [rel.mem EXCEPT ![p] = [used |-> TRUE, data |-> r.data]],
                        root |-> p, freed |-> rel.freed, unc |-> rel.unc \cup {p},
                        found |-> r.found, err |-> FALSE]

\* a removal that found nothing leaves the tree as it is
WriteRemoval(s, r, retain) ==
    IF r.found
    THEN WriteVersion(s, r, retain)
    ELSE [mem |-> s.mem, root |-> s.root, freed |-> s.freed, unc |-> s.unc,
          found |-> FALSE, err |-> FALSE]

\* BtreeMut::insert(key, b"")
BtreeMut_insert(s, key) ==
    WriteVersion(s, TreeInsert(PageData(s.mem, s.root), key), FALSE)

\* BtreeMut::remove(key)
BtreeMut_remove(s, key) ==
    WriteRemoval(s, TreeRemove(PageData(s.mem, s.root), key), FALSE)

\* BtreeMut::remove_retain_uncommitted(key): does not free or reuse the
\* removed version's page, even when that page is uncommitted
BtreeMut_remove_retain_uncommitted(s, key) ==
    WriteRemoval(s, TreeRemove(PageData(s.mem, s.root), key), TRUE)

\* ---------------------------------------------------------------------
\* Range builder and iterators
\* ---------------------------------------------------------------------
None == [some |-> FALSE, data |-> << >>]
Some(d) == [some |-> TRUE, data |-> d]

\* the range builder with an Excluded start mapped like an Included one
make_inclusive_query_range_StartIncl(start, end) ==
    [start |-> CASE start.kind \in {"Included", "Excluded"} ->
                      Some(make_serialized_key_with_op(start.key, "KeyMinusEpsilon"))
                 [] start.kind = "Unbounded" -> None,
     end |-> CASE end.kind = "Included" ->
                    Some(make_serialized_key_with_op(end.key, "KeyPlusEpsilon"))
               [] end.kind = "Excluded" ->
                    Some(make_serialized_key_with_op(end.key, "KeyMinusEpsilon"))
               [] end.kind = "Unbounded" -> None]

\* make_inclusive_query_range: a user range over keys to two optional sentinels
make_inclusive_query_range(start, end) ==
    [start |-> CASE start.kind = "Included" ->
                      Some(make_serialized_key_with_op(start.key, "KeyMinusEpsilon"))
                 [] start.kind = "Excluded" ->
                      Some(make_serialized_key_with_op(start.key, "KeyPlusEpsilon"))
                 [] start.kind = "Unbounded" -> None,
     end |-> CASE end.kind = "Included" ->
                    Some(make_serialized_key_with_op(end.key, "KeyPlusEpsilon"))
               [] end.kind = "Excluded" ->
                    Some(make_serialized_key_with_op(end.key, "KeyMinusEpsilon"))
               [] end.kind = "Unbounded" -> None]

\* make_bound
make_bound(included_or_unbounded) ==
    IF included_or_unbounded.some
    THEN Included(included_or_unbounded.data)
    ELSE Unbounded

\* MultimapValueIter::next called until None: the value of every entry of the cursor
MultimapValueIter_next(inner) == [i \in 1..Len(inner) |-> value_bytes(inner[i])]

\* MultimapRangeIter::next called until None: the (key, value) of every entry
MultimapRangeIter_next(inner) ==
    [i \in 1..Len(inner) |-> << key_bytes(inner[i]), value_bytes(inner[i]) >>]

\* BtreeRangeIter::next: the entry under the cursor and the cursor moved past
\* it; an exhausted cursor stays exhausted
BtreeRangeIter_next(inner) ==
    IF inner = << >>
    THEN [entry |-> None, inner |-> << >>]
    ELSE [entry |-> Some(Head(inner)), inner |-> Tail(inner)]

\* one call of MultimapValueIter::next that moves the cursor twice
ValueIter_next_Skip(inner) ==
    LET e == BtreeRangeIter_next(BtreeRangeIter_next(inner).inner)
    IN  [out |-> IF e.entry.some THEN Some(value_bytes(e.entry.data)) ELSE None,
         inner |-> e.inner]

\* one call of MultimapValueIter::next: what it returns and the cursor it leaves
ValueIter_next(inner) ==
    LET e == BtreeRangeIter_next(inner)
    IN  [out |-> IF e.entry.some THEN Some(value_bytes(e.entry.data)) ELSE None,
         inner |-> e.inner]

\* one call of MultimapRangeIter::next: what it returns and the cursor it leaves
RangeIter_next(inner) ==
    LET e == BtreeRangeIter_next(inner)
    IN  [out |-> IF e.entry.some
                 THEN Some(<< key_bytes(e.entry.data), value_bytes(e.entry.data) >>)
                 ELSE None,
         inner |-> e.inner]

\* rev handing back the cursor without reversing it
rev_Same(inner) == inner

\* MultimapValueIter::rev / MultimapRangeIter::rev
rev(inner) == BtreeRangeIter_reverse(inner)

\* ---------------------------------------------------------------------
\* Table operations on a tree view s = [mem, root, freed, unc]
\* ---------------------------------------------------------------------
\* get with the lower sentinel used for both ends of the scan
get_LowerTwice(t, key) ==
    LET lower == make_serialized_key_with_op(key, "KeyMinusEpsilon")
    IN  TreeRange(t, Included(lower), Included(lower))

\* ReadableMultimapTable::get: the cursor over [Minus(key), Plus(key)]
get(t, key) ==
    LET lower == make_serialized_key_with_op(key, "KeyMinusEpsilon")
        upper == make_serialized_key_with_op(key, "KeyPlusEpsilon")
    IN  TreeRange(t, Included(lower), Included(upper))

\* ReadableMultimapTable::range: the cursor over the user range
range(t, start, end) ==
    LET q == make_inclusive_query_range(start, end)
    IN  TreeRange(t, make_bound(q.start), make_bound(q.end))

\* ReadableMultimapTable::len
len(t) == Len(t)

\* ReadableMultimapTable::is_empty
is_empty(t) == len(t) = 0

\* insert storing the KeyOnly probe of the key
insert_KeyOnly(s, key, value) ==
    BtreeMut_insert(s, make_serialized_key_with_op(key, "KeyOnly"))

\* insert reporting is_none() of the prior value
insert_IsNone(s, key, value) ==
    LET r == BtreeMut_insert(s, new_pair(key, value))
    IN  [r EXCEPT !.found = ~r.err /\ ~r.found]

\* MultimapTable::insert
insert(s, key, value) == BtreeMut_insert(s, new_pair(key, value))

\* remove probing with the key-only sentinel instead of the pair
remove_KeyOnly(s, key, value) ==
    BtreeMut_remove(s, make_serialized_key_with_op(key, "KeyOnly"))

\* MultimapTable::remove
remove(s, key, value) == BtreeMut_remove(s, new_pair(key, value))

\* the loop of MultimapTable::remove_all: `found` is what one removal returned;
\* an error leaves the function, None leaves the loop
RECURSIVE remove_all_loop(_, _)
\* the call that ends the loop: `?` on an error, break on None
remove_all_break(found) ==
    [mem |-> found.mem, root |-> found.root, freed |-> found.freed, unc |-> found.unc,
     found |-> found.found, err |-> found.err, removed |-> 0, calls |-> 1]

\* a removal that found an entry, followed by the iterations r after it
remove_all_again(r) == [r EXCEPT !.removed = @ + 1, !.calls = @ + 1]

\* the loop left after its first removal, whatever that removal found
remove_all_found_Once(found, key_only) ==
    [mem |-> found.mem, root |-> found.root, freed |-> found.freed, unc |-> found.unc,
     found |-> found.found, err |-> found.err,
     removed |-> IF found.found THEN 1 ELSE 0, calls |-> 1]

remove_all_found(found, key_only) ==
    IF found.err \/ ~found.found
    THEN remove_all_break(found)
    ELSE remove_all_again(remove_all_loop(found, key_only))

\* the loop of remove_all calling remove() instead of remove_retain_uncommitted()
remove_all_loop_Remove(s, key_only) ==
    remove_all_found(BtreeMut_remove(s, key_only), key_only)

remove_all_loop(s, key_only) ==
    remove_all_found(BtreeMut_remove_retain_uncommitted(s, key_only), key_only)

\* the end of MultimapTable::remove_all: the cursor over the version saved
\* before the loop, read from the page store as the loop left it
remove_all_range(r, original_root, key) ==
    [mem |-> r.mem, root |-> r.root, freed |-> r.freed, unc |-> r.unc,
     err |-> r.err, removed |-> r.removed, calls |-> r.calls,
     iter |-> IF r.err THEN << >> ELSE get(PageData(r.mem, original_root), key)]

\* MultimapTable::remove_all
remove_all(s, key) ==
    remove_all_range(
        remove_all_loop(s, make_serialized_key_with_op(key, "KeyOnly")), s.root, key)

\* ---------------------------------------------------------------------
\* State
\* ---------------------------------------------------------------------
VARIABLES
    mem,                \* TransactionalMemory: page number -> [used, data]
    uncommitted,        \* pages allocated by the live write transaction
    db_root,            \* committed root of the table
    txn_root,           \* root of the table recorded in the write transaction
    tree,               \* MultimapTable.tree: root of the open writable table
    freed_pages,        \* freed_pages of the write transaction
    wstate,             \* "idle", "txn", "open", "failed", "txn_failed"
    txns,               \* write transactions begun so far
    ro_state,           \* "none" or "open": the read transaction and its table
    ro_tree,            \* ReadOnlyMultimapTable.tree: the pinned root
    ro_reference,       \* pairs committed when the read-only table was opened
    reference,          \* the (key, value) pairs the driver expects in the table
    reference_backup,   \* reference as of the begin of the write transaction
    result,             \* the last call and what it returned
    iter,               \* the iterator the caller holds and what next() returned so far
    operands,           \* three encoded entries handed to the comparator
    ordering,           \* what the comparator returned for them
    buffer,             \* a raw byte buffer handed to the accessors
    decoded,            \* what the accessors returned for it
    inputs,             \* a key, a value and an op handed to the encoders
    tables,             \* table name -> the MultimapTable handle the caller's scope holds
    table_roots,        \* table name -> the root the write transaction recorded for it
    closes,             \* table name -> close_table notifications since it was last opened
    table_reference,    \* table name -> the pairs written through its handles
    pc,                 \* where the caller's scope is: "idle", "running" or an exit path
    ops                 \* opens and mutating calls the scope has made

vars == << mem, uncommitted, db_root, txn_root, tree, freed_pages, wstate, txns,
           ro_state, ro_tree, ro_reference, reference, reference_backup, result,
           iter, operands, ordering, buffer, decoded, inputs,
           tables, table_roots, closes, table_reference, pc, ops >>

wvars == << mem, uncommitted, db_root, txn_root, tree, freed_pages, wstate, txns,
            reference, reference_backup >>
rvars == << ro_state, ro_tree, ro_reference >>
\* the iterator held by the caller
ivars == << iter >>
\* the direct calls of the comparator and of the accessors
cvars == << operands, ordering, buffer, decoded, inputs >>
\* the scope that holds several table handles
svars == << tables, table_roots, closes, table_reference, pc, ops >>

UserBounds == {Unbounded} \cup { Included(k) : k \in Keys } \cup { Excluded(k) : k \in Keys }

NoResult ==
    [op |-> "none", key |-> << >>, value |-> << >>, start |-> Unbounded,
     end |-> Unbounded, rev |-> FALSE, ret |-> FALSE, n |-> 0, out |-> << >>,
     err |-> FALSE, removed |-> 0, calls |-> 0]

Call(op) == [NoResult EXCEPT !.op = op]

\* the writable table's view of the store
Store == [mem |-> mem, root |-> tree, freed |-> freed_pages, unc |-> uncommitted]

\* the version the writable table reads
Contents == PageData(mem, tree)

\* a read-only table that follows the committed root instead of its own
ReadOnlyContents_Live == PageData(mem, db_root)

\* the version the read-only table reads
ReadOnlyContents == PageData(mem, ro_tree)

\* calls are made one at a time: the value or iterator a call returned is
\* dropped before the next call is made
Ready == result.op = "none"

Direction(inner, reversed) == IF reversed THEN rev(inner) ELSE inner

\* no iterator is held
NoIter == [kind |-> "none", inner |-> << >>, src |-> << >>, outs |-> << >>]

TableNames == 1..MaxTables

\* no handle: the table is not open
NoTable == [live |-> FALSE, failed |-> FALSE, name |-> 0, tree |-> NoPage]

\* no scope was entered and no table is known to a transaction
NoScope ==
    /\ tables = [n \in TableNames |-> NoTable]
    /\ table_roots = [n \in TableNames |-> NoPage]
    /\ closes = [n \in TableNames |-> 0]
    /\ table_reference = [n \in TableNames |-> {}]
    /\ pc = "idle"
    /\ ops = 0

\* a database just created, no transaction begun
NewDatabase ==
    /\ NoScope
    /\ mem = [p \in PageNumbers |-> FreeSlot]
    /\ uncommitted = {}
    /\ db_root = NoPage
    /\ txn_root = NoPage
    /\ tree = NoPage
    /\ freed_pages = {}
    /\ wstate = "idle"
    /\ txns = 0
    /\ ro_state = "none"
    /\ ro_tree = NoPage
    /\ ro_reference = {}
    /\ reference = {}
    /\ reference_backup = {}
    /\ result = NoResult

\* nothing was handed to the encoders
NoInputs == [key |-> << >>, value |-> << >>, op |-> "KeyOnly", built |-> "none"]

\* the comparator, the accessors and the encoders have not been called directly
NoDirectCall ==
    /\ operands = << >>
    /\ ordering = << >>
    /\ buffer = << >>
    /\ decoded = << >>
    /\ inputs = NoInputs

Init ==
    /\ NewDatabase
    /\ iter = NoIter
    /\ NoDirectCall

\* the tree view r a mutating call left becomes the state of the table; a
\* call that failed leaves a table on which no further call is made
Written(r) ==
    /\ mem' = r.mem
    /\ tree' = r.root
    /\ freed_pages' = r.freed
    /\ uncommitted' = r.unc
    /\ wstate' = IF r.err THEN "failed" ELSE "open"

\* The driver's reference around a mutating call.  The Insert arm calls the
\* table first and updates the reference after an Ok; the Remove arm updates
\* the reference first and then calls the table, so that the reference stays
\* updated when the call returns Err.
ReferenceUpdated(r, before_call, updated) ==
    reference' = IF r.err /\ ~before_call THEN reference ELSE updated

\* insert and remove return Result<bool>
Returned(r, call, before_call, updated) ==
    /\ result' = [call EXCEPT !.ret = r.found, !.err = r.err]
    /\ ReferenceUpdated(r, before_call, updated)

\* remove_all returns Result<MultimapValueIter>, read until None; the
\* reference is updated as in the Remove arm
ReturnedIter(r, call, updated) ==
    /\ result' = [call EXCEPT !.out = MultimapValueIter_next(r.iter), !.err = r.err,
                              !.removed = r.removed, !.calls = r.calls]
    /\ ReferenceUpdated(r, TRUE, updated)

\* ---------------------------------------------------------------------
\* Write transaction
\* ---------------------------------------------------------------------
\* db.begin_write()
BeginWrite(limit) ==
    /\ Ready
    /\ wstate = "idle"
    /\ txns < limit
    /\ wstate' = "txn"
    /\ txns' = txns + 1
    /\ txn_root' = db_root
    /\ reference_backup' = reference
    /\ result' = Call("begin_write")
    /\ UNCHANGED << mem, uncommitted, db_root, tree, freed_pages, reference >>
    /\ UNCHANGED rvars
    /\ UNCHANGED ivars
    /\ UNCHANGED svars
    /\ UNCHANGED cvars

\* MultimapTable::new
OpenTable ==
    /\ Ready
    /\ wstate = "txn"
    /\ wstate' = "open"
    /\ tree' = txn_root
    /\ result' = Call("open")
    /\ UNCHANGED << mem, uncommitted, db_root, txn_root, freed_pages, txns,
                    reference, reference_backup >>
    /\ UNCHANGED rvars
    /\ UNCHANGED ivars
    /\ UNCHANGED svars
    /\ UNCHANGED cvars

Insert(k, v) ==
    /\ Ready
    /\ wstate = "open"
    /\ len(Contents) < MaxPairs \/ << k, v >> \in reference
    /\ Written(insert(Store, k, v))
    /\ Returned(insert(Store, k, v), [Call("insert") EXCEPT !.key = k, !.value = v],
                FALSE, reference \cup {<< k, v >>})
    /\ UNCHANGED << db_root, txn_root, txns, reference_backup >>
    /\ UNCHANGED rvars
    /\ UNCHANGED ivars
    /\ UNCHANGED svars
    /\ UNCHANGED cvars

Remove(k, v) ==
    /\ Ready
    /\ wstate = "open"
    /\ Written(remove(Store, k, v))
    /\ Returned(remove(Store, k, v), [Call("remove") EXCEPT !.key = k, !.value = v],
                TRUE, reference \ {<< k, v >>})
    /\ UNCHANGED << db_root, txn_root, txns, reference_backup >>
    /\ UNCHANGED rvars
    /\ UNCHANGED ivars
    /\ UNCHANGED svars
    /\ UNCHANGED cvars

RemoveAll(k) ==
    /\ Ready
    /\ wstate = "open"
    /\ Written(remove_all(Store, k))
    /\ ReturnedIter(remove_all(Store, k), [Call("remove_all") EXCEPT !.key = k],
                    { kv \in reference : kv[1] # k })
    /\ UNCHANGED << db_root, txn_root, txns, reference_backup >>
    /\ UNCHANGED rvars
    /\ UNCHANGED ivars
    /\ UNCHANGED svars
    /\ UNCHANGED cvars

Get(k, reversed) ==
    /\ Ready
    /\ wstate = "open"
    /\ result' = [Call("get") EXCEPT !.key = k, !.rev = reversed,
                     !.out = MultimapValueIter_next(Direction(get(Contents, k), reversed))]
    /\ UNCHANGED wvars
    /\ UNCHANGED rvars
    /\ UNCHANGED ivars
    /\ UNCHANGED svars
    /\ UNCHANGED cvars

Range(start, end, reversed) ==
    /\ Ready
    /\ wstate = "open"
    /\ result' = [Call("range") EXCEPT !.start = start, !.end = end, !.rev = reversed,
                     !.out = MultimapRangeIter_next(
                                 Direction(range(Contents, start, end), reversed))]
    /\ UNCHANGED wvars
    /\ UNCHANGED rvars
    /\ UNCHANGED ivars
    /\ UNCHANGED svars
    /\ UNCHANGED cvars

LenCall ==
    /\ Ready
    /\ wstate = "open"
    /\ result' = [Call("len") EXCEPT !.n = len(Contents)]
    /\ UNCHANGED wvars
    /\ UNCHANGED rvars
    /\ UNCHANGED ivars
    /\ UNCHANGED svars
    /\ UNCHANGED cvars

IsEmptyCall ==
    /\ Ready
    /\ wstate = "open"
    /\ result' = [Call("is_empty") EXCEPT !.ret = is_empty(Contents)]
    /\ UNCHANGED wvars
    /\ UNCHANGED rvars
    /\ UNCHANGED ivars
    /\ UNCHANGED svars
    /\ UNCHANGED cvars

\* a drop that does not hand the table's root back to the transaction
DropTable_NoClose ==
    /\ Ready
    /\ wstate \in {"open", "failed"}
    /\ wstate' = IF wstate = "failed" THEN "txn_failed" ELSE "txn"
    /\ result' = Call("close_table")
    /\ UNCHANGED << mem, uncommitted, db_root, txn_root, tree, freed_pages, txns,
                    reference, reference_backup >>
    /\ UNCHANGED rvars
    /\ UNCHANGED ivars
    /\ UNCHANGED svars
    /\ UNCHANGED cvars

\* Drop for MultimapTable: transaction.close_table(name, tree), for the one
\* table name the driver opens, whose recorded root is txn_root
DropTable ==
    /\ Ready
    /\ wstate \in {"open", "failed"}
    /\ txn_root' = tree
    /\ wstate' = IF wstate = "failed" THEN "txn_failed" ELSE "txn"
    /\ result' = Call("close_table")
    /\ UNCHANGED << mem, uncommitted, db_root, tree, freed_pages, txns,
                    reference, reference_backup >>
    /\ UNCHANGED rvars
    /\ UNCHANGED ivars
    /\ UNCHANGED svars
    /\ UNCHANGED cvars

\* txn.commit(): the recorded root becomes the committed root; the pages the
\* transaction freed are released unless a read transaction still pins them
Commit ==
    /\ Ready
    /\ wstate = "txn"
    /\ LET pinned == IF ro_state = "open" THEN {ro_tree} ELSE {}
           released == freed_pages \ pinned
       IN  mem' = [p \in PageNumbers |-> IF p \in released THEN FreeSlot ELSE mem[p]]
    /\ db_root' = txn_root
    /\ freed_pages' = {}
    /\ uncommitted' = {}
    /\ wstate' = "idle"
    /\ reference_backup' = reference
    /\ result' = Call("commit")
    /\ UNCHANGED << txn_root, tree, txns, reference >>
    /\ UNCHANGED rvars
    /\ UNCHANGED ivars
    /\ UNCHANGED svars
    /\ UNCHANGED cvars

\* txn.abort(), or the transaction dropped: every page the transaction
\* allocated is released and nothing it freed is
Abort ==
    /\ Ready
    /\ wstate \in {"txn", "txn_failed"}
    /\ mem' = [p \in PageNumbers |-> IF p \in uncommitted THEN FreeSlot ELSE mem[p]]
    /\ freed_pages' = {}
    /\ uncommitted' = {}
    /\ txn_root' = db_root
    /\ wstate' = "idle"
    /\ reference' = reference_backup
    /\ result' = Call("abort")
    /\ UNCHANGED << db_root, tree, txns, reference_backup >>
    /\ UNCHANGED rvars
    /\ UNCHANGED ivars
    /\ UNCHANGED svars
    /\ UNCHANGED cvars

\* ---------------------------------------------------------------------
\* Read transaction
\* ---------------------------------------------------------------------
\* ReadOnlyMultimapTable::new on the committed root
BeginRead ==
    /\ Ready
    /\ ro_state = "none"
    /\ ro_state' = "open"
    /\ ro_tree' = db_root
    /\ ro_reference' = reference_backup
    /\ result' = Call("begin_read")
    /\ UNCHANGED wvars
    /\ UNCHANGED ivars
    /\ UNCHANGED svars
    /\ UNCHANGED cvars

RoGet(k, reversed) ==
    /\ Ready
    /\ ro_state = "open"
    /\ result' = [Call("ro_get") EXCEPT !.key = k, !.rev = reversed,
                     !.out = MultimapValueIter_next(
                                 Direction(get(ReadOnlyContents, k), reversed))]
    /\ UNCHANGED wvars
    /\ UNCHANGED rvars
    /\ UNCHANGED ivars
    /\ UNCHANGED svars
    /\ UNCHANGED cvars

RoRange(start, end, reversed) ==
    /\ Ready
    /\ ro_state = "open"
    /\ result' = [Call("ro_range") EXCEPT !.start = start, !.end = end, !.rev = reversed,
                     !.out = MultimapRangeIter_next(
                                 Direction(range(ReadOnlyContents, start, end), reversed))]
    /\ UNCHANGED wvars
    /\ UNCHANGED rvars
    /\ UNCHANGED ivars
    /\ UNCHANGED svars
    /\ UNCHANGED cvars

RoLen ==
    /\ Ready
    /\ ro_state = "open"
    /\ result' = [Call("ro_len") EXCEPT !.n = len(ReadOnlyContents)]
    /\ UNCHANGED wvars
    /\ UNCHANGED rvars
    /\ UNCHANGED ivars
    /\ UNCHANGED svars
    /\ UNCHANGED cvars

RoIsEmpty ==
    /\ Ready
    /\ ro_state = "open"
    /\ result' = [Call("ro_is_empty") EXCEPT !.ret = is_empty(ReadOnlyContents)]
    /\ UNCHANGED wvars
    /\ UNCHANGED rvars
    /\ UNCHANGED ivars
    /\ UNCHANGED svars
    /\ UNCHANGED cvars

\* the read transaction ends: its pinned root is released when no longer committed
EndRead ==
    /\ Ready
    /\ ro_state = "open"
    /\ ro_state' = "none"
    /\ ro_tree' = NoPage
    /\ ro_reference' = {}
    /\ mem' = IF ro_tree # NoPage /\ ro_tree # db_root
              THEN [mem EXCEPT ![ro_tree] = FreeSlot]
              ELSE mem
    /\ result' = Call("end_read")
    /\ UNCHANGED << uncommitted, db_root, txn_root, tree, freed_pages, wstate, txns,
                    reference, reference_backup >>
    /\ UNCHANGED ivars
    /\ UNCHANGED svars
    /\ UNCHANGED cvars

\* The caller drops what the last call returned (an iterator borrows its
\* table until then).  The iterators have no Drop impl: the store is left
\* as it is, and the pages remove_all retained keep their entries until
\* the transaction ends.
DropResult ==
    /\ ~Ready
    /\ result' = NoResult
    /\ UNCHANGED wvars
    /\ UNCHANGED rvars
    /\ UNCHANGED ivars
    /\ UNCHANGED svars
    /\ UNCHANGED cvars

\* ---------------------------------------------------------------------
\* Iterators read one next() at a time
\* ---------------------------------------------------------------------
\* calls of next() made on an iterator after it returned None
MaxNones == 2

Nones(outs) == Cardinality({ i \in 1..Len(outs) : ~outs[i].some })

\* table.get(k), or table.get(k).rev(): the iterator borrows the table
GetIter(k, reversed) ==
    /\ Ready
    /\ wstate = "open"
    /\ iter.kind = "none"
    /\ iter' = [kind |-> "value",
                inner |-> Direction(get(Contents, k), reversed),
                src |-> Direction(get(Contents, k), reversed),
                outs |-> << >>]
    /\ UNCHANGED << wvars, rvars, result, cvars, svars >>

\* table.range(start, end), or its rev()
RangeIter(start, end, reversed) ==
    /\ Ready
    /\ wstate = "open"
    /\ iter.kind = "none"
    /\ iter' = [kind |-> "range",
                inner |-> Direction(range(Contents, start, end), reversed),
                src |-> Direction(range(Contents, start, end), reversed),
                outs |-> << >>]
    /\ UNCHANGED << wvars, rvars, result, cvars, svars >>

\* MultimapValueIter::next
ValueIterNext ==
    /\ iter.kind = "value"
    /\ Nones(iter.outs) < MaxNones
    /\ iter' = [iter EXCEPT !.inner = ValueIter_next(iter.inner).inner,
                            !.outs = Append(@, ValueIter_next(iter.inner).out)]
    /\ UNCHANGED << wvars, rvars, result, cvars, svars >>

\* MultimapRangeIter::next
RangeIterNext ==
    /\ iter.kind = "range"
    /\ Nones(iter.outs) < MaxNones
    /\ iter' = [iter EXCEPT !.inner = RangeIter_next(iter.inner).inner,
                            !.outs = Append(@, RangeIter_next(iter.inner).out)]
    /\ UNCHANGED << wvars, rvars, result, cvars, svars >>

\* the iterator is dropped and the table can be called again
DropIter ==
    /\ iter.kind # "none"
    /\ iter' = NoIter
    /\ UNCHANGED << wvars, rvars, result, cvars, svars >>

\* ---------------------------------------------------------------------
\* The comparator called directly on encoded entries
\* ---------------------------------------------------------------------
SentinelOps == {"KeyMinusEpsilon", "KeyPlusEpsilon", "KeyOnly"}

\* every entry new_pair and make_serialized_key_with_op build
Entries ==
    { new_pair(k, v) : k \in Keys, v \in Values }
        \cup { make_serialized_key_with_op(k, op) : k \in Keys, op \in SentinelOps }

\* three entries a, b, c are handed to the comparator
CmpInit ==
    /\ NewDatabase
    /\ iter = NoIter
    /\ operands \in Entries \X Entries \X Entries
    /\ ordering = << >>
    /\ buffer = << >>
    /\ decoded = << >>
    /\ inputs = NoInputs

\* MultimapKVPair::compare on each two of the three entries
Compare ==
    /\ ordering = << >>
    /\ ordering' = [ab |-> compare_call(operands[1], operands[2], 0),
                    ba |-> compare_call(operands[2], operands[1], 0),
                    bc |-> compare_call(operands[2], operands[3], 0),
                    ac |-> compare_call(operands[1], operands[3], 0)]
    /\ UNCHANGED << wvars, rvars, result, ivars, svars, operands, buffer, decoded, inputs >>

\* ---------------------------------------------------------------------
\* The accessors called directly on raw buffers
\* ---------------------------------------------------------------------
MaxBufLen == 6      \* raw buffers have at most this many bytes
MaxRawByte == 5     \* and bytes 0..MaxRawByte

Buffers == UNION { [1..n -> 0..MaxRawByte] : n \in 0..MaxBufLen }

\* a raw buffer, well formed or not, is handed to the accessors
DecodeInit ==
    /\ NewDatabase
    /\ iter = NoIter
    /\ operands = << >>
    /\ ordering = << >>
    /\ buffer \in Buffers
    /\ decoded = << >>
    /\ inputs = NoInputs

\* MultimapKVPairAccessor::new(buffer) and each accessor called on it
Decode ==
    /\ decoded = << >>
    /\ decoded' = [compare_op |-> compare_op_call(buffer),
                   key_len |-> key_len_call(buffer),
                   key_bytes |-> key_bytes_call(buffer),
                   value_bytes |-> value_bytes_call(buffer)]
    /\ UNCHANGED << wvars, rvars, result, ivars, svars, operands, ordering, buffer, inputs >>

\* ---------------------------------------------------------------------
\* The encoders called directly, and the accessors on what they built
\* ---------------------------------------------------------------------
\* byte strings of at most n bytes 0..MaxRawByte
RawBytes(n) == UNION { [1..m -> 0..MaxRawByte] : m \in 0..n }

\* a key, a value and a sentinel op are handed to the encoders
EncodeInit ==
    /\ NewDatabase
    /\ iter = NoIter
    /\ operands = << >>
    /\ ordering = << >>
    /\ buffer = << >>
    /\ decoded = << >>
    /\ inputs \in [key : RawBytes(MaxKeyLen), value : RawBytes(MaxValLen),
                   op : SentinelOps, built : {"none"}]

\* MultimapKVPair::new_pair(key, value)
EncodePair ==
    /\ inputs.built = "none"
    /\ buffer' = new_pair(inputs.key, inputs.value)
    /\ inputs' = [inputs EXCEPT !.built = "pair"]
    /\ UNCHANGED << wvars, rvars, result, ivars, svars, operands, ordering, decoded >>

\* make_serialized_key_with_op(key, op)
EncodeSentinel ==
    /\ inputs.built = "none"
    /\ buffer' = make_serialized_key_with_op(inputs.key, inputs.op)
    /\ inputs' = [inputs EXCEPT !.built = "sentinel"]
    /\ UNCHANGED << wvars, rvars, result, ivars, svars, operands, ordering, decoded >>

\* ---------------------------------------------------------------------
\* Specifications
\* ---------------------------------------------------------------------
\* Table calls inside write transactions on a fresh database
Next ==
    \/ BeginWrite(MaxTxns)
    \/ OpenTable
    \/ \E k \in Keys, v \in Values : Insert(k, v)
    \/ \E k \in Keys, v \in Values : Remove(k, v)
    \/ \E k \in Keys : RemoveAll(k)
    \/ \E k \in Keys, reversed \in BOOLEAN : Get(k, reversed)
    \/ \E start \in UserBounds, end \in UserBounds, reversed \in BOOLEAN :
          Range(start, end, reversed)
    \/ LenCall
    \/ IsEmptyCall
    \/ DropTable
    \/ Commit
    \/ Abort
    \/ DropResult

Spec == Init /\ [][Next]_vars

\* Write transactions interleaved with a read transaction
TxnNext ==
    \/ BeginWrite(MaxSnapshotTxns)
    \/ OpenTable
    \/ \E k \in Keys, v \in SnapshotValues : Insert(k, v)
    \/ \E k \in Keys, v \in SnapshotValues : Remove(k, v)
    \/ \E k \in Keys : RemoveAll(k)
    \/ DropTable
    \/ Commit
    \/ Abort
    \/ BeginRead
    \/ \E k \in Keys, reversed \in BOOLEAN : RoGet(k, reversed)
    \/ \E start \in UserBounds, end \in UserBounds, reversed \in BOOLEAN :
          RoRange(start, end, reversed)
    \/ RoLen
    \/ RoIsEmpty
    \/ EndRead
    \/ DropResult

TxnSpec == Init /\ [][TxnNext]_vars

\* ---------------------------------------------------------------------
\* A scope that holds several table handles of one write transaction
\* ---------------------------------------------------------------------
\* values written under DropSpec
ScopeValues == { << >> }

\* what the steps of such a scope leave alone
dvars == << db_root, txn_root, tree, wstate, txns, reference, reference_backup,
            result, rvars, ivars, cvars >>

\* MultimapTable::new: the handle keeps the name and a tree view on the root
\* the transaction has under that name
MultimapTable_new(name, table_root) ==
    [live |-> TRUE, failed |-> FALSE, name |-> name, tree |-> table_root]

\* WriteTransaction::close_table(name, tree): the transaction records the
\* root under the name, and the notification is counted
close_table(txn, name, table_tree) ==
    [roots |-> [txn.roots EXCEPT ![name] = table_tree],
     closes |-> [txn.closes EXCEPT ![name] = @ + 1]]

\* a drop that notifies the transaction under another table's name
drop_OtherName(self, txn) == close_table(txn, (self.name % MaxTables) + 1, self.tree)

\* Drop for MultimapTable: self.transaction.close_table(&self.name, &mut self.tree)
drop(self, txn) == close_table(txn, self.name, self.tree)

\* the write transaction as the handles see it
Transaction == [roots |-> table_roots, closes |-> closes]

\* the view of the store the handle of table n holds
TableStore(n) ==
    [mem |-> mem, root |-> tables[n].tree, freed |-> freed_pages, unc |-> uncommitted]

\* db.begin_write() and the block in which the tables are opened
EnterScope ==
    /\ pc = "idle"
    /\ pc' = "running"
    /\ UNCHANGED << mem, uncommitted, freed_pages, tables, table_roots, closes,
                    table_reference, ops >>
    /\ UNCHANGED dvars

\* txn.open_multimap_table(name): refused while the name is open
\* (TableAlreadyOpen), else MultimapTable::new on the recorded root
TableOpen(n) ==
    /\ pc = "running"
    /\ ops < MaxOps
    /\ ~tables[n].live
    /\ tables' = [tables EXCEPT ![n] = MultimapTable_new(n, table_roots[n])]
    /\ closes' = [closes EXCEPT ![n] = 0]
    /\ ops' = ops + 1
    /\ UNCHANGED << mem, uncommitted, freed_pages, table_roots, table_reference, pc >>
    /\ UNCHANGED dvars

\* The tree view r a mutating call left becomes the state of handle n.  On Err
\* the driver returns early when running out of space is plausible and its
\* assert panics otherwise; the reference is updated as in the driver's arms.
TableWritten(n, r, before_call, updated, plausible) ==
    /\ mem' = r.mem
    /\ freed_pages' = r.freed
    /\ uncommitted' = r.unc
    /\ tables' = [tables EXCEPT ![n].tree = r.root, ![n].failed = r.err]
    /\ table_reference' =
          [table_reference EXCEPT ![n] = IF r.err /\ ~before_call THEN @ ELSE updated]
    /\ pc' = IF ~r.err THEN pc ELSE IF plausible THEN "returning" ELSE "unwinding"
    /\ ops' = ops + 1
    /\ UNCHANGED << table_roots, closes >>
    /\ UNCHANGED dvars

\* a call can be made through the handle of table n
CanCall(n) ==
    /\ pc = "running"
    /\ ops < MaxOps
    /\ tables[n].live

TableInsert(n, k, v, plausible) ==
    /\ CanCall(n)
    /\ TableWritten(n, insert(TableStore(n), k, v), FALSE,
                    table_reference[n] \cup {<< k, v >>}, plausible)

TableRemove(n, k, v, plausible) ==
    /\ CanCall(n)
    /\ TableWritten(n, remove(TableStore(n), k, v), TRUE,
                    table_reference[n] \ {<< k, v >>}, plausible)

TableRemoveAll(n, k, plausible) ==
    /\ CanCall(n)
    /\ TableWritten(n, remove_all(TableStore(n), k), TRUE,
                    { kv \in table_reference[n] : kv[1] # k }, plausible)

\* what the drop of a handle leaves in the transaction
Closed(n, txn) ==
    /\ table_roots' = txn.roots
    /\ closes' = txn.closes
    /\ tables' = [tables EXCEPT ![n] = NoTable]

\* The handle of table n goes out of scope and its Drop runs: while the scope
\* runs (an inner block ends), at the end of the scope, on an early return or
\* while a panic unwinds.
TableDrop(n) ==
    /\ pc # "idle"
    /\ tables[n].live
    /\ Closed(n, drop(tables[n], Transaction))
    /\ UNCHANGED << mem, uncommitted, freed_pages, table_reference, pc, ops >>
    /\ UNCHANGED dvars

\* the scope leaves path: its end is reached, or an assert of the caller panics
LeaveScope(path) ==
    /\ pc = "running"
    /\ pc' = path
    /\ UNCHANGED << mem, uncommitted, freed_pages, tables, table_roots, closes,
                    table_reference, ops >>
    /\ UNCHANGED dvars

\* the block ends
ScopeEnd == LeaveScope("ending")

\* an assert or unwrap of the caller panics
ScopePanic == LeaveScope("unwinding")

DropNext ==
    \/ EnterScope
    \/ \E n \in TableNames : TableOpen(n)
    \/ \E n \in TableNames, k \in Keys, v \in ScopeValues, plausible \in BOOLEAN :
          TableInsert(n, k, v, plausible)
    \/ \E n \in TableNames, k \in Keys, v \in ScopeValues, plausible \in BOOLEAN :
          TableRemove(n, k, v, plausible)
    \/ \E n \in TableNames, k \in Keys, plausible \in BOOLEAN :
          TableRemoveAll(n, k, plausible)
    \/ \E n \in TableNames : TableDrop(n)
    \/ ScopeEnd
    \/ ScopePanic

\* The program keeps running: the scope makes at most MaxOps calls (the
\* driver walks a finite list of operations), then it is left.
DropSpec == Init /\ [][DropNext]_vars /\ WF_vars(DropNext)

\* The comparator on every three entries
CmpNext == Compare

CmpSpec == CmpInit /\ [][CmpNext]_vars

\* The accessors on every raw buffer
DecodeNext == Decode

DecodeSpec == DecodeInit /\ [][DecodeNext]_vars

\* An entry is built and then read through the accessors
EncodeNext ==
    \/ EncodePair
    \/ EncodeSentinel
    \/ inputs.built # "none" /\ Decode

EncodeSpec == EncodeInit /\ [][EncodeNext]_vars

\* A table filled inside a write transaction and read through iterators,
\* one next() at a time; no table call is made while an iterator is held
IterNextStep ==
    \/ iter.kind = "none" /\ BeginWrite(MaxTxns)
    \/ iter.kind = "none" /\ OpenTable
    \/ \E k \in Keys, v \in Values : iter.kind = "none" /\ Insert(k, v)
    \/ \E k \in Keys, v \in Values : iter.kind = "none" /\ Remove(k, v)
    \/ iter.kind = "none" /\ DropResult
    \/ \E k \in Keys, reversed \in BOOLEAN : GetIter(k, reversed)
    \/ \E start \in UserBounds, end \in UserBounds, reversed \in BOOLEAN :
          RangeIter(start, end, reversed)
    \/ ValueIterNext
    \/ RangeIterNext
    \/ DropIter

IterSpec == Init /\ [][IterNextStep]_vars

\* ---------------------------------------------------------------------
\* Properties
\* ---------------------------------------------------------------------
\* the (key, value) pairs decoded from the entries of one version
StoredPairs(t) == { << key_bytes(t[i]), value_bytes(t[i]) >> : i \in 1..Len(t) }

Elements(q) == { q[i] : i \in 1..Len(q) }

\* the values stored under key k in a set of pairs
ValuesOf(pairs, k) == { p[2] : p \in { q \in pairs : q[1] = k } }

InsertStep == result.op = "none" /\ result'.op = "insert" /\ ~result'.err
RemoveStep == result.op = "none" /\ result'.op = "remove" /\ ~result'.err
RemoveAllStep == result.op = "none" /\ result'.op = "remove_all"

\* C1: while the writable table is usable, get(k) yields the value v exactly
\* when (k, v) was inserted and not removed since by remove(k, v) or
\* remove_all(k), for every key k and value v.
C1_GetRoundTrip ==
    wstate = "open" =>
        \A k \in Keys, v \in Values :
            v \in Elements(MultimapValueIter_next(get(Contents, k)))
                <=> << k, v >> \in reference

\* a pair was just removed from under a key that keeps another value
C1_Witness ==
    /\ wstate = "open"
    /\ result.op = "remove"
    /\ result.ret
    /\ MultimapValueIter_next(get(Contents, result.key)) # << >>
    /\ result.value \notin Elements(MultimapValueIter_next(get(Contents, result.key)))

\* C2: no two stored entries decode to the same (k, v); insert(k, v) returns
\* true exactly when (k, v) was stored immediately before the call, and then
\* the stored pairs and len() are unchanged.
C2_InsertUnique ==
    [][ /\ len(Contents') = Cardinality(StoredPairs(Contents'))
        /\ InsertStep =>
             LET kv == << result'.key, result'.value >>
             IN  /\ result'.ret <=> kv \in StoredPairs(Contents)
                 /\ kv \in StoredPairs(Contents')
                 /\ result'.ret => /\ StoredPairs(Contents') = StoredPairs(Contents)
                                   /\ len(Contents') = len(Contents) ]_vars

\* the second of two identical inserts on an empty table
C2_Witness ==
    /\ result.op = "insert"
    /\ result.ret
    /\ len(Contents) = 1

\* C3: remove(k, v) returns true exactly when (k, v) was stored immediately
\* before the call; afterwards the stored pairs are the former ones without
\* (k, v), so an absent pair leaves the table unchanged and returns false.
C3_RemoveOnlyThatPair ==
    [][ RemoveStep =>
          LET kv == << result'.key, result'.value >>
          IN  /\ result'.ret <=> kv \in StoredPairs(Contents)
              /\ StoredPairs(Contents') = StoredPairs(Contents) \ {kv}
              /\ ~result'.ret => Contents' = Contents ]_vars

\* remove of an absent pair, right after its key lost a pair, on a table that
\* still holds another value of that key
C3_Witness ==
    /\ result.op = "remove"
    /\ ~result.ret
    /\ ~result.err
    /\ ValuesOf(StoredPairs(Contents), result.key) # {}

\* C4: the iterator returned by remove_all(k) yields exactly the values stored
\* under k immediately before the call, each once, although it is read after
\* the removals; get(k) after the call yields nothing.
C4_RemoveAllIterator ==
    [][ (RemoveAllStep /\ ~result'.err) =>
          LET before == ValuesOf(StoredPairs(Contents), result'.key)
          IN  /\ Elements(result'.out) = before
              /\ Len(result'.out) = Cardinality(before)
              /\ get(Contents', result'.key) = << >> ]_vars

\* remove_all returned two values and left pairs of another key behind
C4_Witness ==
    /\ result.op = "remove_all"
    /\ ~result.err
    /\ Len(result.out) = 2
    /\ Contents # << >>

\* C5: remove_all(k) leaves every pair of another key stored and removes no
\* pair but those of k; when it returns its iterator, no pair of k is left and
\* len() has decreased by the number of pairs k had (0 and an empty iterator
\* when k had none).
C5_RemoveAllFrame ==
    [][ RemoveAllStep =>
          LET k == result'.key
              others == { p \in StoredPairs(Contents) : p[1] # k }
              mine == { p \in StoredPairs(Contents) : p[1] = k }
          IN  /\ others \subseteq StoredPairs(Contents')
              /\ StoredPairs(Contents') \subseteq StoredPairs(Contents)
              /\ ~result'.err =>
                   /\ StoredPairs(Contents') = others
                   /\ len(Contents') = len(Contents) - Cardinality(mine)
                   /\ mine = {} => (result'.out = << >> /\ Contents' = Contents) ]_vars

\* C21: with n Pairs of key k stored, the loop of remove_all(k) makes n
\* removals that each take one Pair of k away and then one call that finds
\* none; a removal that fails ends the loop at once, the error is returned
\* and no iterator is.
C21_LoopTerminates ==
    [][ RemoveAllStep =>
          LET n == Cardinality({ p \in StoredPairs(Contents) : p[1] = result'.key })
          IN  /\ result'.calls = result'.removed + 1
              /\ len(Contents') = len(Contents) - result'.removed
              /\ Cardinality({ p \in StoredPairs(Contents') : p[1] = result'.key })
                    = n - result'.removed
              /\ ~result'.err => result'.removed = n
              /\ result'.err => (result'.removed < n /\ result'.out = << >>) ]_vars

\* the loop removed two Pairs of the key and then found none
C21_Witness ==
    /\ result.op = "remove_all"
    /\ ~result.err
    /\ result.removed = 2
    /\ result.calls = 3

\* the loop ended on a removal that failed after one that succeeded
C21_WitnessError ==
    /\ result.op = "remove_all"
    /\ result.err
    /\ result.removed = 1

\* remove_all of a key without values on a table that holds another key
C5_Witness ==
    /\ result.op = "remove_all"
    /\ ~result.err
    /\ result.out = << >>
    /\ len(Contents) >= 2

\* K.compare-membership of key k in the user range (start, end)
InUserRange(k, start, end) ==
    /\ CASE start.kind = "Included" -> KCompare(start.key, k) \in {"Less", "Equal"}
         [] start.kind = "Excluded" -> KCompare(start.key, k) = "Less"
         [] start.kind = "Unbounded" -> TRUE
    /\ CASE end.kind = "Included" -> KCompare(k, end.key) \in {"Less", "Equal"}
         [] end.kind = "Excluded" -> KCompare(k, end.key) = "Less"
         [] end.kind = "Unbounded" -> TRUE

Reversed(q) == [i \in 1..Len(q) |-> q[Len(q) + 1 - i]]

\* C6: range(r) yields, each once, exactly the stored pairs whose key lies in
\* the user range r, for every combination of Included, Excluded and Unbounded
\* start and end bounds; a range without stored key yields nothing.
C6_RangeExact ==
    result.op = "range" =>
        LET inside == { p \in StoredPairs(Contents) :
                          InUserRange(p[1], result.start, result.end) }
        IN  /\ Elements(result.out) = inside
            /\ Len(result.out) = Cardinality(inside)

\* a range from an Excluded key that holds pairs to an Included key that holds pairs
C6_Witness ==
    /\ result.op = "range"
    /\ result.start.kind = "Excluded"
    /\ result.end.kind = "Included"
    /\ ValuesOf(StoredPairs(Contents), result.start.key) # {}
    /\ result.out # << >>
    /\ \A i \in 1..Len(result.out) : result.out[i][1] = result.end.key

\* C7: get(k) yields values in strictly ascending V.compare order, get(k).rev()
\* in strictly descending order and as the exact reverse of get(k);
\* range(r).rev() yields the exact reverse of range(r).
C7_ReverseIsExactReverse ==
    /\ (result.op = "get" /\ ~result.rev) =>
          \A i \in 1..(Len(result.out) - 1) :
              VCompare(result.out[i], result.out[i + 1]) = "Less"
    /\ (result.op = "get" /\ result.rev) =>
          /\ \A i \in 1..(Len(result.out) - 1) :
                VCompare(result.out[i], result.out[i + 1]) = "Greater"
          /\ result.out = Reversed(MultimapValueIter_next(get(Contents, result.key)))
    /\ (result.op = "range" /\ result.rev) =>
          result.out =
              Reversed(MultimapRangeIter_next(range(Contents, result.start, result.end)))

\* a reversed get that yields two values
C7_Witness ==
    /\ result.op = "get"
    /\ result.rev
    /\ Len(result.out) = 2

LexLess(p, q) ==
    \/ KCompare(p[1], q[1]) = "Less"
    \/ KCompare(p[1], q[1]) = "Equal" /\ VCompare(p[2], q[2]) = "Less"

\* C8: the pairs yielded by range(r) are in lexicographic order on (key, value):
\* keys never decrease and the values of one key strictly increase.
C8_RangeLexOrder ==
    (result.op = "range" /\ ~result.rev) =>
        \A i \in 1..(Len(result.out) - 1) : LexLess(result.out[i], result.out[i + 1])

\* a forward range over two keys, one of them with two values
C8_Witness ==
    /\ result.op = "range"
    /\ ~result.rev
    /\ Len(result.out) = 3
    /\ result.out[1][1] = result.out[2][1]
    /\ result.out[2][1] # result.out[3][1]

\* what next() returns on its i-th call over the cursor entries src
Decoded(kind, e) ==
    IF kind = "value" THEN value_bytes(e) ELSE << key_bytes(e), value_bytes(e) >>

\* C11: the i-th call of next() on an iterator yields the i-th entry of its
\* cursor, and None on every call after the last entry: no entry is yielded
\* twice, none is skipped, and None is never followed by an entry.
C11_IteratorFused ==
    iter.kind # "none" =>
        \A i \in 1..Len(iter.outs) :
            iter.outs[i] = IF i <= Len(iter.src)
                           THEN Some(Decoded(iter.kind, iter.src[i]))
                           ELSE None

\* a value iterator yielded two values and then returned None twice
C11_Witness ==
    /\ iter.kind = "value"
    /\ Len(iter.src) = 2
    /\ Len(iter.outs) = 4
    /\ iter.outs[2].some
    /\ ~iter.outs[4].some

IsPair(e) == compare_op(e) = "KeyAndValue"

\* the comparator was called on the three entries
Compared == ordering # << >>

\* C13: a Pair with key K compared with a sentinel of key K2 gives: against
\* Minus(K2), Greater when K2 <= K, else Less; against Plus(K2), Less when
\* K2 >= K, else Greater; against KeyOnly(K2), K.compare(K, K2).
C13_SentinelTable ==
    (Compared /\ IsPair(operands[1]) /\ ~IsPair(operands[2])) =>
        LET kc == KCompare(key_bytes(operands[1]), key_bytes(operands[2]))
            op == compare_op(operands[2])
        IN  ordering.ab.ordering =
               CASE op = "KeyMinusEpsilon" -> (IF kc = "Less" THEN "Less" ELSE "Greater")
                 [] op = "KeyPlusEpsilon" -> (IF kc = "Greater" THEN "Greater" ELSE "Less")
                 [] op = "KeyOnly" -> kc

\* a Pair compared Greater with the Minus sentinel of its own key
C13_Witness ==
    /\ Compared
    /\ IsPair(operands[1])
    /\ compare_op(operands[2]) = "KeyMinusEpsilon"
    /\ key_bytes(operands[1]) = key_bytes(operands[2])
    /\ ordering.ab.ordering = "Greater"

Flip(o) == CASE o = "Less" -> "Greater" [] o = "Greater" -> "Less" [] OTHER -> o

\* C14: when at least one of a, b is a Pair, compare(a, b) is compare(b, a)
\* with Less and Greater exchanged.
C14_Antisymmetric ==
    (Compared /\ (IsPair(operands[1]) \/ IsPair(operands[2]))) =>
        /\ ordering.ab.ordering \in {"Less", "Equal", "Greater"}
        /\ ordering.ab.ordering = Flip(ordering.ba.ordering)

\* a sentinel as first operand: Minus(K) is Less than a Pair of key K
C14_Witness ==
    /\ Compared
    /\ compare_op(operands[1]) = "KeyMinusEpsilon"
    /\ IsPair(operands[2])
    /\ key_bytes(operands[1]) = key_bytes(operands[2])
    /\ ordering.ab.ordering = "Less"
    /\ ordering.ba.ordering = "Greater"

\* each of the three comparisons has a Pair operand
Comparable ==
    /\ IsPair(operands[1]) \/ IsPair(operands[2])
    /\ IsPair(operands[2]) \/ IsPair(operands[3])
    /\ IsPair(operands[1]) \/ IsPair(operands[3])

Le(o) == o \in {"Less", "Equal"}

Transitive ==
    /\ (Le(ordering.ab.ordering) /\ Le(ordering.bc.ordering)) => Le(ordering.ac.ordering)
    /\ (ordering.ab.ordering = "Equal" /\ ordering.bc.ordering = "Equal") =>
          ordering.ac.ordering = "Equal"

\* C15 as claimed: the comparator is transitive over all entries a, b, c of
\* which each two include a Pair, also when b is a KeyOnly sentinel.
C15_TransitiveAll == (Compared /\ Comparable) => Transitive

\* C15: the comparator is transitive over all entries a, b, c of which each
\* two include a Pair, provided the middle entry b is not a KeyOnly sentinel.
C15_TransitiveButKeyOnly ==
    (Compared /\ Comparable /\ compare_op(operands[2]) # "KeyOnly") => Transitive

\* a <= Minus(K) <= c for two Pairs a, c around a sentinel b
C15_Witness ==
    /\ Compared
    /\ IsPair(operands[1])
    /\ compare_op(operands[2]) = "KeyMinusEpsilon"
    /\ IsPair(operands[3])
    /\ ordering.ab.ordering = "Less"
    /\ ordering.bc.ordering = "Less"
    /\ ordering.ac.ordering = "Less"

\* C16: every entry of every page of the store has tag 1 (Pair), after any
\* sequence of insert, remove, remove_all, get and range calls.
C16_OnlyPairsStored ==
    \A p \in PageNumbers :
        \A i \in 1..Len(mem[p].data) : mem[p].data[i][1] = serialize("KeyAndValue")

\* a remove_all with a KeyOnly probe left pairs of another key stored
C16_Witness ==
    /\ wstate = "open"
    /\ result.op = "remove_all"
    /\ Len(result.out) >= 1
    /\ Len(Contents) >= 1

\* the positions of the tree version t that hold a Pair of key k
Run(t, k) == { i \in 1..Len(t) : key_bytes(t[i]) = k }

\* C17: in the tree the table reads, the Pairs of a key k are above Minus(k)
\* and below Plus(k), every Pair of another key is below Minus(k) or above
\* Plus(k), and the Pairs of k stand at consecutive positions.
C17_ContiguousRun ==
    wstate = "open" =>
        \A k \in Keys :
            /\ \A i \in Run(Contents, k) :
                  /\ compare(Contents[i], make_serialized_key_with_op(k, "KeyMinusEpsilon"))
                        = "Greater"
                  /\ compare(Contents[i], make_serialized_key_with_op(k, "KeyPlusEpsilon"))
                        = "Less"
            /\ \A i \in (1..Len(Contents)) \ Run(Contents, k) :
                  \/ compare(Contents[i], make_serialized_key_with_op(k, "KeyMinusEpsilon"))
                        = "Less"
                  \/ compare(Contents[i], make_serialized_key_with_op(k, "KeyPlusEpsilon"))
                        = "Greater"
            /\ \A i \in Run(Contents, k), j \in Run(Contents, k) :
                  \A m \in i..j : m \in Run(Contents, k)

\* two Pairs of one key stored next to a Pair of another key
C17_Witness ==
    /\ wstate = "open"
    /\ result.op = "insert"
    /\ Len(Contents) = 3
    /\ \E k \in Keys : Cardinality(Run(Contents, k)) = 2

\* C18: every entry of the trees the writable and the read-only table read
\* is a Pair, so that each comparison of it with a probe an operation builds
\* (a Pair or any sentinel), in either operand order, passes the assertion.
C18_NeverTwoSentinels ==
    \A t \in { IF wstate = "open" THEN Contents ELSE << >>,
                IF ro_state = "open" THEN ReadOnlyContents ELSE << >> } :
        \A i \in 1..Len(t) :
            \A q \in Entries :
                /\ compare(q, t[i]) # "Panic"
                /\ compare(t[i], q) # "Panic"

\* a writable table after remove_all and a read-only table, both non-empty
C18_Witness ==
    /\ wstate = "open"
    /\ ro_state = "open"
    /\ result.op = "remove_all"
    /\ Contents # << >>
    /\ ReadOnlyContents # << >>
    /\ Contents # ReadOnlyContents

\* C19: called on two sentinels the comparator fails its assertion before
\* any swap and returns no ordering; every call returns, after at most one
\* swap of its operands.
C19_AssertBeforeSwap ==
    Compared =>
        /\ ~(IsPair(operands[1]) \/ IsPair(operands[2])) =>
              ordering.ab = [ordering |-> "Panic", swaps |-> 0]
        /\ \A r \in {ordering.ab, ordering.ba, ordering.bc, ordering.ac} :
              /\ r.swaps <= 1
              /\ r.ordering \in {"Less", "Equal", "Greater", "Panic"}
              /\ r.ordering = "Panic" => r.swaps = 0

\* two sentinels of the same key were compared
C19_Witness ==
    /\ Compared
    /\ compare_op(operands[1]) = "KeyOnly"
    /\ compare_op(operands[2]) = "KeyPlusEpsilon"
    /\ ordering.ab.ordering = "Panic"
    /\ ordering.bc.swaps = 1

\* the buffer is not the encoding of an entry
Malformed(b) ==
    \/ Len(b) < 5
    \/ Len(b) >= 5 /\ Len(b) < 5 + from_le_bytes(SubSeq(b, 2, 5))
    \/ Len(b) >= 1 /\ b[1] \notin 1..4

Accessors == {"compare_op", "key_len", "key_bytes", "value_bytes"}

\* C20: decoding a buffer that is shorter than 5 bytes, shorter than
\* 5 + key_len bytes, or whose tag is not 1, 2, 3 or 4, fails with an error
\* returned to the caller.
C20_MalformedIsError ==
    (decoded # << >> /\ Malformed(buffer)) =>
        /\ \E f \in Accessors : decoded[f].kind = "Err"
        /\ \A f \in Accessors : decoded[f].kind # "Panic"

\* the accessors panic on exactly the malformed buffers
C20_MalformedPanics ==
    decoded # << >> =>
        (Malformed(buffer) <=> \E f \in Accessors : decoded[f].kind = "Panic")

\* C22: the accessors return, for new_pair(k, v), tag 1, key_len = |k|,
\* key_bytes = k and value_bytes = v, and no other key and value give the
\* same bytes; for make_serialized_key_with_op(k, op), the tag of op,
\* key_bytes = k and empty value_bytes.
C22_EncodingRoundTrip ==
    (decoded # << >> /\ inputs.built # "none") =>
        /\ \A f \in Accessors : decoded[f].kind = "Ok"
        /\ decoded.compare_op.value =
              (IF inputs.built = "pair" THEN "KeyAndValue" ELSE inputs.op)
        /\ buffer[1] = (IF inputs.built = "pair" THEN 1 ELSE serialize(inputs.op))
        /\ decoded.key_len.value = Len(inputs.key)
        /\ decoded.key_bytes.value = inputs.key
        /\ decoded.value_bytes.value =
              (IF inputs.built = "pair" THEN inputs.value ELSE << >>)
        /\ inputs.built = "pair" =>
              \A k2 \in RawBytes(MaxKeyLen), v2 \in RawBytes(MaxValLen) :
                  new_pair(k2, v2) = buffer => (k2 = inputs.key /\ v2 = inputs.value)

\* a Pair of a one-byte key and a one-byte value was built and read back
C22_Witness ==
    /\ decoded # << >>
    /\ inputs.built = "pair"
    /\ Len(inputs.key) = 1
    /\ Len(inputs.value) = 1
    /\ inputs.key # inputs.value
    /\ decoded.value_bytes.kind = "Ok"

\* a writable handle of table n exists: opened and not yet dropped
LiveTable(n) == tables[n].live

\* the scope was left and every handle it held is closed by one notification
AllClosed(path) ==
    /\ pc = path
    /\ \A n \in TableNames : ~LiveTable(n) /\ closes[n] <= 1

\* C12: whenever a handle exists, the scope is eventually left with no
\* handle remaining (every opened handle is eventually closed); a handle of
\* table n stops existing only in a step that notifies the transaction once, under
\* the name n and no other, with the root the handle holds (the pairs
\* written through the handles of n when no call failed); the transaction
\* changes what it has under a name only by such a notification; nothing is
\* written to a table that has no handle; and this is so when the scope
\* ends, when it is left by an early return after a failed call, and when a
\* panic unwinds it.
C12_ClosedOnce ==
    /\ [][\A n \in TableNames :
              (LiveTable(n) /\ ~LiveTable(n)') =>
                  /\ closes[n] = 0
                  /\ closes' = [closes EXCEPT ![n] = 1]
                  /\ table_roots' = [table_roots EXCEPT ![n] = tables[n].tree]
                  /\ mem' = mem
                  /\ ~tables[n].failed =>
                        StoredPairs(PageData(mem', table_roots'[n])) = table_reference[n]]_vars
    /\ [][\A n \in TableNames :
              (closes'[n] # closes[n] \/ table_roots'[n] # table_roots[n]) =>
                  \/ LiveTable(n) /\ ~LiveTable(n)'
                  \/ /\ ~LiveTable(n) /\ LiveTable(n)'
                     /\ closes'[n] = 0
                     /\ table_roots'[n] = table_roots[n]
                     /\ tables'[n].name = n
                     /\ tables'[n].tree = table_roots[n]]_vars
    /\ [][\A n \in TableNames :
              (~LiveTable(n) /\ ~LiveTable(n)') =>
                  /\ PageData(mem', table_roots[n]) = PageData(mem, table_roots[n])
                  /\ table_reference'[n] = table_reference[n]]_vars
    /\ [][mem' # mem =>
              \E n \in TableNames :
                  LiveTable(n) /\ ~tables[n].failed /\ LiveTable(n)' /\ pc = "running"]_vars
    /\ (\E n \in TableNames : LiveTable(n)) ~>
          (\E path \in {"ending", "returning", "unwinding"} : AllClosed(path))

\* a panic unwound a scope that held the handles of two tables, each with
\* pairs of its own, and both were closed
C12_Witness ==
    /\ AllClosed("unwinding")
    /\ \A n \in TableNames : closes[n] = 1 /\ table_roots[n] # NoPage
    /\ table_reference[1] # table_reference[2]

\* a scope was left by an early return after a call failed, and the handle
\* the call was made through was closed
C12_WitnessFailed ==
    /\ AllClosed("returning")
    /\ \E n \in TableNames : closes[n] = 1

\* the end of a scope was reached and the handle it still held was closed
C12_WitnessEnd ==
    /\ AllClosed("ending")
    /\ \E n \in TableNames : closes[n] = 1 /\ table_roots[n] # NoPage

\* the pairs a transaction that begins now would see
Committed == StoredPairs(PageData(mem, db_root))

\* C9: while a read-only table is open, every get, range, len and is_empty it
\* answers is the answer of the pairs committed when it was opened, whatever
\* the writable table inserted, removed or committed in the meantime.
C9_SnapshotIsolation ==
    ro_state = "open" =>
        /\ result.op = "ro_get" =>
              /\ Elements(result.out) = ValuesOf(ro_reference, result.key)
              /\ Len(result.out) = Cardinality(ValuesOf(ro_reference, result.key))
        /\ result.op = "ro_range" =>
              /\ Elements(result.out) =
                    { q \in ro_reference : InUserRange(q[1], result.start, result.end) }
              /\ Len(result.out) = Cardinality(Elements(result.out))
        /\ result.op = "ro_len" => result.n = Cardinality(ro_reference)
        /\ result.op = "ro_is_empty" => result.ret = (ro_reference = {})

\* a read-only get yields a pair that a write transaction has removed and
\* committed since the table was opened
C9_Witness ==
    /\ ro_state = "open"
    /\ result.op = "ro_get"
    /\ Len(result.out) = 1
    /\ << result.key, result.out[1] >> \notin Committed
    /\ Committed # ro_reference

\* C10: the committed contents change only by a commit: they equal the
\* contents before the running write transaction began (so an abort leaves
\* them), a commit makes them the contents the transaction's table last saw,
\* and the tables of later transactions start from them.
C10_CommitVisibility ==
    /\ Committed = reference_backup
    /\ wstate = "idle" => reference = Committed
    /\ wstate = "open" => StoredPairs(Contents) = reference
    /\ result.op = "begin_write" => StoredPairs(PageData(mem, txn_root)) = Committed
    /\ result.op = "begin_read" => StoredPairs(ReadOnlyContents) = Committed

\* a second write transaction changed a non-empty table and was aborted
C10_Witness ==
    /\ result.op = "abort"
    /\ txns = 2
    /\ tree # db_root
    /\ Committed # {}

====
